---------------------------- MODULE Spec2Model ----------------------------
(***************************************************************************)
(* Model of the equation discovery pipeline of                             *)
(* lm5148_tool/export_lm5148_equations_to_excel.py.                        *)
(*                                                                         *)
(* A text is a sequence of characters; a character is a one-element        *)
(* string.  Characters outside ASCII are written by name:                  *)
(*   "TAB" and "NL" are the tab and the newline, "UMINUS" is U+2212 (the   *)
(*   Unicode minus sign), "LE" "GE" "APPROX" "NE" are the relational       *)
(*   glyphs, "SUM" and "SQRT" the summation and the radical sign.          *)
(***************************************************************************)
EXTENDS Integers, Sequences, FiniteSets, TLC

VARIABLES
    pc,              \* the step the run is at
    text,            \* the text handed to the normalizer or the classifier
    min_len,         \* args.min_len
    require_equals,  \* args.require_equals
    page,            \* the blocks page.get_text("blocks") gives for a page
    blocks,          \* a list of text blocks (dicts with "bbox" and "text")
    idx,             \* the index build_context is called with (from 0)
    items,           \* the (page, text, bbox) triples handed to dedupe
    ret,             \* the value the last call returned
    pdf,             \* what is at args.pdf: missing, corrupt, or a readable file
    doc,             \* the pages of the opened document, none before it is opened
    page_index,      \* the page the loop over the pages is at (from 0)
    candidates,      \* main: the (page, text, bbox, context) candidates so far
    deduped_keyed,   \* main: what dedupe returned
    ctx_map,         \* main: the context kept for every key
    eq_items,        \* main: the EquationItem records built so far
    eq_id,           \* main: the next identifier
    rec_i,           \* main: how many entries of deduped_keyed the loop has taken
    loads,           \* the doc.load_page calls so far
    rendered,        \* the images saved so far
    xlsx,            \* the workbooks saved so far, each the sequence of its rows
    error,           \* the exception that ended the run
    exit_code,       \* the exit status of the process
    equation_numbers,\* extract_equation_images: the labels asked for
    pages_1based,    \* extract_equation_images: the page range
    eq_pos,          \* extract_equation_images: how many labels the loop has taken
    found,           \* extract_equation_images: the flag of the label at hand
    eq_to_path,      \* extract_equation_images: the mapping built so far
    template_name,   \* fill_quickstart_excel: template_path.name
    out_xlsx,        \* fill_quickstart_excel: whether an .xlsx copy is asked for
    excel,           \* fill_quickstart_excel: the Excel application
    wb,              \* fill_quickstart_excel: the workbook
    calls            \* fill_quickstart_excel: the calls made to Excel, with outcome

\* the state of the functions called on their own
callvars == <<pc, text, min_len, require_equals, page, blocks, idx, items, ret>>

callvars_but_pc ==
    <<text, min_len, require_equals, page, blocks, idx, items, ret>>

\* the state of a run of main
runvars ==
    <<pdf, doc, page_index, candidates, deduped_keyed, ctx_map, eq_items,
      eq_id, rec_i, loads, rendered, xlsx, error, exit_code>>

\* the state of extract_equation_images
locvars == <<equation_numbers, pages_1based, eq_pos, found, eq_to_path>>

\* the state of fill_quickstart_excel
xlvars == <<template_name, out_xlsx, excel, wb, calls>>

vars == <<callvars, runvars, locvars, xlvars>>

-----------------------------------------------------------------------------
(* Character classes *)

\* what str.split() and str.strip() treat as whitespace
Whitespace == {" ", "TAB", "NL"}

UMINUS == "UMINUS"

\* _EQUATION_HINT_RE
EQUATION_HINT == {"=", "LE", "GE", "APPROX", "NE", "/", "SUM", "SQRT", "^"}

\* the relational operators tested when require_equals is on
RelationalChars == {"=", "LE", "GE", "APPROX", "NE"}

\* the characters that exempt a long text from the prose filter
ProseExemptChars == {"=", "/", "SUM", "SQRT"}

\* [A-Za-z], as far as the texts of the model use it
AsciiLetters == {"a", "b", "x", "V", "O", "U", "T"}

\* \d, as far as the texts of the model use it
Digits == {"1", "5"}

IsSpace(c) == c \in Whitespace

Contains(t, chars) == \E i \in 1..Len(t) : t[i] \in chars

-----------------------------------------------------------------------------
(* String primitives of the Python runtime, as the code uses them *)

\* the least element of a non-empty set of integers
Least(S) == CHOOSE m \in S : \A k \in S : m <= k

\* the greatest element of a non-empty set of integers
Greatest(S) == CHOOSE m \in S : \A k \in S : m >= k

\* the positions of t that hold whitespace, and those that do not
SpaceAt(t) == {i \in 1..Len(t) : IsSpace(t[i])}
InkAt(t) == {i \in 1..Len(t) : ~IsSpace(t[i])}

\* str.lstrip(), str.rstrip(), str.strip() with no argument
lstrip(t) == IF InkAt(t) = {} THEN <<>> ELSE SubSeq(t, Least(InkAt(t)), Len(t))
rstrip(t) == IF InkAt(t) = {} THEN <<>> ELSE SubSeq(t, 1, Greatest(InkAt(t)))
strip(t) == lstrip(rstrip(t))

\* length of the longest prefix of t without whitespace
WordLen(t) == IF SpaceAt(t) = {} THEN Len(t) ELSE Least(SpaceAt(t)) - 1

\* str.split() with no separator: the maximal runs of non-whitespace
RECURSIVE split(_)
split(t) ==
    LET u == lstrip(t)
        n == WordLen(u)
    IN  IF u = <<>> THEN <<>>
        ELSE <<SubSeq(u, 1, n)>> \o split(SubSeq(u, n + 1, Len(u)))

\* sep.join(words)
RECURSIVE join(_, _)
join(sep, words) ==
    IF words = <<>> THEN <<>>
    ELSE IF Len(words) = 1 THEN words[1]
    ELSE words[1] \o sep \o join(sep, Tail(words))

\* str.replace(old, new) for one-character old and new
replace(t, old, new) == [i \in 1..Len(t) |-> IF t[i] = old THEN new ELSE t[i]]

-----------------------------------------------------------------------------
(* Block Normalizer *)

\* a slip: collapsing whitespace by one pass of replace("  ", " ") over the
\* spaces instead of split/join
RECURSIVE CollapsePairs(_)
CollapsePairs(t) ==
    IF Len(t) < 2 THEN t
    ELSE IF IsSpace(t[1]) /\ IsSpace(t[2])
         THEN <<" ">> \o CollapsePairs(SubSeq(t, 3, Len(t)))
         ELSE <<t[1]>> \o CollapsePairs(Tail(t))

normalize_by_pairs(text_in) ==
    strip(replace(CollapsePairs(text_in), UMINUS, "-"))

\* a slip: the Unicode minus is left as it is
normalize_keep_minus(text_in) ==
    strip(join(<<" ">>, split(text_in)))

normalize_equation_text(text_in) ==
    LET t1 == join(<<" ">>, split(text_in))
        t2 == replace(t1, UMINUS, "-")
    IN  strip(t2)

-----------------------------------------------------------------------------
(* Equation Classifier *)

WordLimit == 16

\* a slip: the prose filter rejects from 15 words on
looks_like_equation_15(text_in, minlen, req) ==
    LET t == normalize_equation_text(text_in)
        has_math_hint == Contains(t, EQUATION_HINT)
        words == split(t)
        has_variable == Contains(t, AsciiLetters)
        has_number == Contains(t, Digits)
    IN  IF Len(t) < minlen THEN FALSE
        ELSE IF ~has_math_hint THEN FALSE
        ELSE IF req /\ ~Contains(t, RelationalChars) THEN FALSE
        ELSE IF Len(words) >= WordLimit - 1 /\ ~Contains(t, ProseExemptChars) THEN FALSE
        ELSE (has_variable /\ has_math_hint) /\ (has_number \/ Contains(t, {"="}))

\* a slip: the relational requirement tests '=' only
looks_like_equation_eq_only(text_in, minlen, req) ==
    LET t == normalize_equation_text(text_in)
        has_math_hint == Contains(t, EQUATION_HINT)
        words == split(t)
        has_variable == Contains(t, AsciiLetters)
        has_number == Contains(t, Digits)
    IN  IF Len(t) < minlen THEN FALSE
        ELSE IF ~has_math_hint THEN FALSE
        ELSE IF req /\ ~Contains(t, {"="}) THEN FALSE
        ELSE IF Len(words) >= WordLimit /\ ~Contains(t, ProseExemptChars) THEN FALSE
        ELSE (has_variable /\ has_math_hint) /\ (has_number \/ Contains(t, {"="}))

\* a slip: the relational requirement dropped
looks_like_equation_no_rel(text_in, minlen, req) ==
    LET t == normalize_equation_text(text_in)
        has_math_hint == Contains(t, EQUATION_HINT)
        words == split(t)
        has_variable == Contains(t, AsciiLetters)
        has_number == Contains(t, Digits)
    IN  IF Len(t) < minlen THEN FALSE
        ELSE IF ~has_math_hint THEN FALSE
        ELSE IF Len(words) >= WordLimit /\ ~Contains(t, ProseExemptChars) THEN FALSE
        ELSE (has_variable /\ has_math_hint) /\ (has_number \/ Contains(t, {"="}))

looks_like_equation(text_in, minlen, req) ==
    LET t == normalize_equation_text(text_in)
        has_math_hint == Contains(t, EQUATION_HINT)
        words == split(t)
        has_variable == Contains(t, AsciiLetters)
        has_number == Contains(t, Digits)
    IN  IF Len(t) < minlen THEN FALSE
        ELSE IF ~has_math_hint THEN FALSE
        ELSE IF req /\ ~Contains(t, RelationalChars) THEN FALSE
        ELSE IF Len(words) >= WordLimit /\ ~Contains(t, ProseExemptChars) THEN FALSE
        ELSE (has_variable /\ has_math_hint) /\ (has_number \/ Contains(t, {"="}))

-----------------------------------------------------------------------------
(* Text blocks of a page *)

\* a block of page.get_text("blocks"): (x0, y0, x1, y1, text, block_no,
\* block_type), the block number left out
RawBlock(bb, t, ty) == [bbox |-> bb, text |-> t, block_type |-> ty]

\* the dict extract_text_blocks builds for a text block
TextBlock(bb, t) == [type |-> 0, bbox |-> bb, text |-> t]

\* the blocks of type 0 whose text is not empty and not whitespace only
RECURSIVE extract_text_blocks(_)
extract_text_blocks(raw) ==
    IF raw = <<>> THEN <<>>
    ELSE LET b == Head(raw)
             rest == extract_text_blocks(Tail(raw))
         IN  IF b.block_type # 0 THEN rest
             ELSE IF b.text = <<>> \/ strip(b.text) = <<>> THEN rest
             ELSE <<TextBlock(b.bbox, b.text)>> \o rest

block_text(b) == b.text

block_bbox(b) == b.bbox

-----------------------------------------------------------------------------
(* Spatial Sequencer *)

\* a slip: the sort key taken as (x0, y0)
key_x_first(b) == <<block_bbox(b)[1], block_bbox(b)[2]>>

\* the sort key (y0, x0) of a block
key(b) == <<block_bbox(b)[2], block_bbox(b)[1]>>

\* k1 < k2 for two key tuples, compared as Python compares tuples
KeyLess(k1, k2) == k1[1] < k2[1] \/ (k1[1] = k2[1] /\ k1[2] < k2[2])

\* b put into the sorted list s behind every block whose key is not greater
RECURSIVE InsertSorted(_, _)
InsertSorted(s, b) ==
    IF s = <<>> THEN <<b>>
    ELSE IF KeyLess(key(b), key(Head(s))) THEN <<b>> \o s
    ELSE <<Head(s)>> \o InsertSorted(Tail(s), b)

\* sorted(blocks, key=key): the stable sort of the Python runtime
RECURSIVE sorted_by_key(_)
sorted_by_key(bs) ==
    IF bs = <<>> THEN <<>>
    ELSE InsertSorted(sorted_by_key(SubSeq(bs, 1, Len(bs) - 1)), bs[Len(bs)])

\* a slip: equal keys are not kept in their order (a block is put before
\* the blocks of the same key)
RECURSIVE InsertBefore(_, _)
InsertBefore(s, b) ==
    IF s = <<>> THEN <<b>>
    ELSE IF ~KeyLess(key(Head(s)), key(b)) THEN <<b>> \o s
    ELSE <<Head(s)>> \o InsertBefore(Tail(s), b)

RECURSIVE sorted_unstable(_)
sorted_unstable(bs) ==
    IF bs = <<>> THEN <<>>
    ELSE InsertBefore(sorted_unstable(SubSeq(bs, 1, Len(bs) - 1)), bs[Len(bs)])

sorted_blocks_by_position(bs) == sorted_by_key(bs)

-----------------------------------------------------------------------------
(* Context Builder *)

ClipLen == 140
ClipKeep == 137

Ellipsis == <<".", ".", ".">>

Delimiter == <<" ", "|", " ">>

\* s[:n]
Prefix(s, n) == SubSeq(s, 1, IF n < Len(s) THEN n ELSE Len(s))

\* a slip: the snippet cut to 140 characters before the ellipsis is added
clip_late(s_in) ==
    LET s == join(<<" ">>, split(s_in))
    IN  IF Len(s) > ClipLen THEN Prefix(s, ClipLen) \o Ellipsis ELSE s

clip(s_in) ==
    LET s == join(<<" ">>, split(s_in))
    IN  IF Len(s) > ClipLen THEN Prefix(s, ClipKeep) \o Ellipsis ELSE s

\* a slip: the guard idx - 1 >= 0 left out, so that index -1 reads the last
\* block of the list
build_context_wrap(blocks_sorted, i) ==
    LET n == Len(blocks_sorted)
        prev0 == IF i - 1 >= 0
                 THEN normalize_equation_text(block_text(blocks_sorted[i]))
                 ELSE normalize_equation_text(block_text(blocks_sorted[n]))
        next0 == IF i + 1 < n
                 THEN normalize_equation_text(block_text(blocks_sorted[i + 2]))
                 ELSE <<>>
        prev_txt == clip(prev0)
        next_txt == clip(next0)
    IN  IF prev_txt # <<>> /\ next_txt # <<>>
        THEN prev_txt \o Delimiter \o next_txt
        ELSE IF prev_txt # <<>> THEN prev_txt
        ELSE IF next_txt # <<>> THEN next_txt
        ELSE <<>>

\* blocks_sorted is the Python list; its element i (from 0) is
\* blocks_sorted[i + 1] here
build_context(blocks_sorted, i) ==
    LET n == Len(blocks_sorted)
        prev0 == IF i - 1 >= 0
                 THEN normalize_equation_text(block_text(blocks_sorted[i]))
                 ELSE <<>>
        next0 == IF i + 1 < n
                 THEN normalize_equation_text(block_text(blocks_sorted[i + 2]))
                 ELSE <<>>
        prev_txt == clip(prev0)
        next_txt == clip(next0)
    IN  IF prev_txt # <<>> /\ next_txt # <<>>
        THEN prev_txt \o Delimiter \o next_txt
        ELSE IF prev_txt # <<>> THEN prev_txt
        ELSE IF next_txt # <<>> THEN next_txt
        ELSE <<>>

-----------------------------------------------------------------------------
(* Deduplicator *)

\* A coordinate is a number of hundredths of a point: 1004 is 10.04.

\* the coordinates at a tie (5 hundredths) whose double lies above the tie,
\* so that round(v, 1) goes up: 10.05; the other tie of the model, 50.05,
\* has its double below the tie and goes down
TiesRoundedUp == {1005}

\* a slip: the coordinate cut to one decimal instead of rounded
round1_truncate(v) == v - (v % 10)

\* round(v, 1), in hundredths
round1(v) ==
    LET r == v % 10
        down == v - r
    IN  IF r < 5 THEN down
        ELSE IF r > 5 THEN down + 10
        ELSE IF v \in TiesRoundedUp THEN down + 10
        ELSE down

\* a slip: the page number left out of the key
dedupe_key_no_page(page_num, t, bbox) ==
    <<0, t, [i \in 1..Len(bbox) |-> round1(bbox[i])]>>

\* a slip: the bounding box put into the key as it is
dedupe_key_exact(page_num, t, bbox) == <<page_num, t, bbox>>

\* key = (page_num, t, bb) with bb = tuple(round(v, 1) for v in bbox)
dedupe_key(page_num, t, bbox) ==
    <<page_num, t, [i \in 1..Len(bbox) |-> round1(bbox[i])]>>

\* the loop of dedupe over the items left, with the keys seen and the
\* output so far
RECURSIVE dedupe_loop(_, _, _)
dedupe_loop(left, seen, out) ==
    IF left = <<>> THEN out
    ELSE LET page_num == Head(left)[1]
             bbox == Head(left)[3]
             t == normalize_equation_text(Head(left)[2])
             k == dedupe_key(page_num, t, bbox)
         IN  IF k \in seen
             THEN dedupe_loop(Tail(left), seen, out)
             ELSE dedupe_loop(Tail(left), seen \cup {k},
                              Append(out, <<page_num, t, bbox>>))

\* a slip: the key looked up with the normalized text but remembered with
\* the text as given
RECURSIVE dedupe_loop_seen_raw(_, _, _)
dedupe_loop_seen_raw(left, seen, out) ==
    IF left = <<>> THEN out
    ELSE LET page_num == Head(left)[1]
             bbox == Head(left)[3]
             t == normalize_equation_text(Head(left)[2])
         IN  IF dedupe_key(page_num, t, bbox) \in seen
             THEN dedupe_loop_seen_raw(Tail(left), seen, out)
             ELSE dedupe_loop_seen_raw(
                      Tail(left),
                      seen \cup {dedupe_key(page_num, Head(left)[2], bbox)},
                      Append(out, <<page_num, t, bbox>>))

dedupe_seen_raw(its) == dedupe_loop_seen_raw(its, {}, <<>>)

\* a slip: the items whose box is empty or inverted passed over
dedupe_skip_degenerate(its) ==
    dedupe_loop(SelectSeq(its, LAMBDA x : x[3][1] < x[3][3] /\ x[3][2] < x[3][4]),
                {}, <<>>)

\* a slip: every item kept, only normalized
dedupe_keep_all(its) ==
    [k \in 1..Len(its) |->
        <<its[k][1], normalize_equation_text(its[k][2]), its[k][3]>>]

dedupe(its) == dedupe_loop(its, {}, <<>>)

-----------------------------------------------------------------------------
(* Inputs *)

\* all texts of at most n characters over chars
TextsUpTo(chars, n) == UNION {[1..k -> chars] : k \in 0..n}

\* n words " a"
RECURSIVE Pad(_)
Pad(n) == IF n = 0 THEN <<>> ELSE <<" ", "a">> \o Pad(n - 1)

NoBlocks == <<>>
NoItems == <<>>
NoRet == "none"

\* the exit status of a process that has not ended
Running == -1

\* no run of main is under way
RunIdle ==
    /\ pdf = NoRet
    /\ doc = <<>>
    /\ page_index = 0
    /\ candidates = <<>>
    /\ deduped_keyed = NoRet
    /\ ctx_map = <<>>
    /\ eq_items = <<>>
    /\ eq_id = 0
    /\ rec_i = 0
    /\ loads = <<>>
    /\ rendered = <<>>
    /\ xlsx = <<>>
    /\ error = "none"
    /\ exit_code = Running

\* no call of fill_quickstart_excel is under way
ExcelIdle ==
    /\ template_name = <<>>
    /\ out_xlsx = FALSE
    /\ excel = "none"
    /\ wb = "none"
    /\ calls = <<>>

\* no call of extract_equation_images is under way
LocatorIdle ==
    /\ equation_numbers = <<>>
    /\ pages_1based = <<1, 0>>
    /\ eq_pos = 0
    /\ found = FALSE
    /\ eq_to_path = <<>>

-----------------------------------------------------------------------------
(* The normalizer applied to a text *)

MaxText == 5

NormChars == {" ", "TAB", "NL", "a", UMINUS, "-"}

InitNormalize ==
    /\ pc = "start"
    /\ text \in TextsUpTo(NormChars, MaxText)
    /\ min_len = 0
    /\ require_equals = FALSE
    /\ page = NoBlocks
    /\ blocks = NoBlocks
    /\ idx = 0
    /\ items = NoItems
    /\ ret = NoRet
    /\ RunIdle
    /\ LocatorIdle
    /\ ExcelIdle

Normalize ==
    /\ pc = "start"
    /\ ret' = normalize_equation_text(text)
    /\ pc' = "normalized"
    /\ UNCHANGED <<text, min_len, require_equals, page, blocks, idx, items>>
    /\ UNCHANGED <<runvars, locvars, xlvars>>

SpecNormalize == InitNormalize /\ [][Normalize]_vars

\* C5: normalizing an already normalized text changes nothing
NormalizeIdempotent ==
    pc = "normalized" => normalize_equation_text(ret) = ret

NormalizeIdempotentWitness ==
    /\ pc = "normalized"
    /\ ret # text
    /\ Contains(text, {UMINUS})
    /\ Contains(ret, Whitespace)

\* the characters of t that are not whitespace, in order
NonWs(t) == SelectSeq(t, LAMBDA c : ~IsSpace(c))

\* the positions of t that hold no whitespace, ascending
NonWsIdx(t) == SelectSeq([i \in 1..Len(t) |-> i], LAMBDA i : ~IsSpace(t[i]))

\* whether whitespace separates the k-th and the next non-whitespace
\* character of t
Gap(t, k) == NonWsIdx(t)[k + 1] - NonWsIdx(t)[k] > 1

\* C6: the result has no whitespace at either end, its only whitespace is
\* single spaces, one for every run of whitespace between two characters of
\* the input, it holds no Unicode minus, and it keeps every other character
\* in order; a text without any non-whitespace character gives the empty text
NormalizeContract ==
    pc = "normalized" =>
        /\ ret \in Seq(NormChars)
        /\ ret # <<>> => ~IsSpace(ret[1]) /\ ~IsSpace(ret[Len(ret)])
        /\ \A i \in 1..Len(ret) :
              IsSpace(ret[i]) => ret[i] = " " /\ i > 1 /\ ~IsSpace(ret[i - 1])
        /\ ~Contains(ret, {UMINUS})
        /\ NonWs(ret) = [i \in 1..Len(NonWs(text)) |->
                            IF NonWs(text)[i] = UMINUS THEN "-" ELSE NonWs(text)[i]]
        /\ \A k \in 1..(Len(NonWs(text)) - 1) : Gap(ret, k) <=> Gap(text, k)
        /\ NonWs(text) = <<>> => ret = <<>>

NormalizeContractWitness ==
    /\ pc = "normalized"
    /\ Len(text) = 4
    /\ IsSpace(text[1])
    /\ text[2] = UMINUS
    /\ text[3] = "NL"
    /\ text[4] = "a"
    /\ ret = <<"-", " ", "a">>

-----------------------------------------------------------------------------
(* The classifier applied to a text *)

MaxHead == 3
MaxPad == 16
DefaultMinLen == 6

ClassifyChars == {" ", "a", "1", "=", "LE", "/", "^"}

PadCounts == (0..2) \cup ((WordLimit - 3)..MaxPad)

VOUT_5V == <<"V", "O", "U", "T", " ", "=", " ", "5", " ", "V">>

ClassifyExamples == {VOUT_5V, <<"a", "/", "b">>, <<"x">>}

ClassifyTexts ==
    {h \o Pad(n) : h \in TextsUpTo(ClassifyChars, MaxHead), n \in PadCounts}
        \cup ClassifyExamples

InitClassify ==
    /\ pc = "start"
    /\ text \in ClassifyTexts
    /\ min_len \in {1, DefaultMinLen}
    /\ require_equals \in BOOLEAN
    /\ page = NoBlocks
    /\ blocks = NoBlocks
    /\ idx = 0
    /\ items = NoItems
    /\ ret = NoRet
    /\ RunIdle
    /\ LocatorIdle
    /\ ExcelIdle

Classify ==
    /\ pc = "start"
    /\ ret' = looks_like_equation(text, min_len, require_equals)
    /\ pc' = "classified"
    /\ UNCHANGED <<text, min_len, require_equals, page, blocks, idx, items>>
    /\ UNCHANGED <<runvars, locvars, xlvars>>

SpecClassify == InitClassify /\ [][Classify]_vars

\* the number of whitespace-delimited words of t
WordCount(t) ==
    Cardinality({i \in 1..Len(t) : ~IsSpace(t[i]) /\ (i = 1 \/ IsSpace(t[i - 1]))})

Rule1(t) == Len(t) >= min_len
Rule2(t) == Contains(t, {"=", "LE", "GE", "APPROX", "NE", "/", "SUM", "SQRT", "^"})
Rule3(t) == require_equals => Contains(t, {"=", "LE", "GE", "APPROX", "NE"})
Rule4(t) == ~(WordCount(t) >= 16 /\ ~Contains(t, {"=", "/", "SUM", "SQRT"}))
Rule5(t) == Contains(t, AsciiLetters) /\ (Contains(t, Digits) \/ Contains(t, {"="}))

\* C1: the classification is true exactly when the five rules hold of the
\* normalized text; "VOUT = 5 V" with the defaults is an equation
ClassifierFiveRules ==
    pc = "classified" =>
        LET t == normalize_equation_text(text)
        IN  /\ ret <=> (Rule1(t) /\ Rule2(t) /\ Rule3(t) /\ Rule4(t) /\ Rule5(t))
            /\ (text = VOUT_5V /\ min_len = DefaultMinLen /\ require_equals) => ret

ClassifierFiveRulesWitness ==
    /\ pc = "classified"
    /\ text = VOUT_5V
    /\ min_len = DefaultMinLen
    /\ require_equals
    /\ ret = TRUE

\* C2: with require_equals on, a text without a relational operator is
\* rejected whatever else it holds; a text shorter than min_len is rejected
RelationalRequired ==
    pc = "classified" =>
        /\ (require_equals /\ ~Contains(text, {"=", "LE", "GE", "APPROX", "NE"}))
              => ret = FALSE
        /\ Len(normalize_equation_text(text)) < min_len => ret = FALSE

RelationalRequiredWitness ==
    /\ pc = "classified"
    /\ require_equals
    /\ text = <<"a", "/", "1">>
    /\ min_len = 1
    /\ ret = FALSE

\* C3: a text of 16 or more words without any of = / SUM SQRT is rejected
\* even when every other rule holds; shorter texts and texts with one of
\* those characters are decided by the other four rules alone
ProseFilter ==
    pc = "classified" =>
        LET t == normalize_equation_text(text)
            others == Rule1(t) /\ Rule2(t) /\ Rule3(t) /\ Rule5(t)
        IN  /\ (WordCount(t) >= 16 /\ ~Contains(t, {"=", "/", "SUM", "SQRT"}))
                  => ret = FALSE
            /\ (WordCount(t) <= 15 \/ Contains(t, {"=", "/", "SUM", "SQRT"}))
                  => (ret <=> others)

ProseFilterWitness ==
    /\ pc = "classified"
    /\ LET t == normalize_equation_text(text)
       IN  /\ WordCount(t) = 16
           /\ Contains(t, {"LE"})
           /\ Contains(t, {"^"})
           /\ Rule1(t) /\ Rule2(t) /\ Rule3(t) /\ Rule5(t)
    /\ require_equals
    /\ ret = FALSE

-----------------------------------------------------------------------------
(* The sequencer applied to the text blocks of a page *)

MaxBlocks == 3

\* a bounding box (x0, y0, x1, y1) with the given left and top edge
Box(x0, y0) == <<x0, y0, x0 + 40, y0 + 10>>

SortBlockChoices ==
    {TextBlock(Box(x0, y0), t) :
        x0 \in {10, 20}, y0 \in {10, 20}, t \in {<<"a">>, <<"b">>}}

SeqsUpTo(S, n) == UNION {[1..k -> S] : k \in 0..n}

InitSort ==
    /\ pc = "start"
    /\ text = <<>>
    /\ min_len = 0
    /\ require_equals = FALSE
    /\ page = NoBlocks
    /\ blocks \in SeqsUpTo(SortBlockChoices, MaxBlocks)
    /\ idx = 0
    /\ items = NoItems
    /\ ret = NoRet
    /\ RunIdle
    /\ LocatorIdle
    /\ ExcelIdle

Sort ==
    /\ pc = "start"
    /\ ret' = sorted_blocks_by_position(blocks)
    /\ pc' = "sorted"
    /\ UNCHANGED <<text, min_len, require_equals, page, blocks, idx, items>>
    /\ UNCHANGED <<runvars, locvars, xlvars>>

SpecSort == InitSort /\ [][Sort]_vars

\* the one-to-one maps of 1..n onto itself
IndexPermutations(n) ==
    {p \in [1..n -> 1..n] : \A i, j \in 1..n : p[i] = p[j] => i = j}

\* C7: the result is the input rearranged, ascending by y0 and then by x0,
\* blocks of the same (y0, x0) in the order they had in the input
SortedStablePermutation ==
    pc = "sorted" =>
        /\ Len(ret) = Len(blocks)
        /\ \E p \in IndexPermutations(Len(blocks)) :
              /\ \A i \in 1..Len(ret) : ret[i] = blocks[p[i]]
              /\ \A i, j \in 1..Len(ret) :
                    i < j =>
                      LET a == ret[i].bbox
                          b == ret[j].bbox
                      IN  /\ a[2] <= b[2]
                          /\ a[2] = b[2] => a[1] <= b[1]
                          /\ (a[2] = b[2] /\ a[1] = b[1]) => p[i] < p[j]

SortedStablePermutationWitness ==
    /\ pc = "sorted"
    /\ Len(blocks) = 3
    /\ ret # blocks
    /\ ret[1].bbox = ret[2].bbox
    /\ ret[1].text # ret[2].text
    /\ ret[2].bbox[2] = ret[3].bbox[2]
    /\ ret[2].bbox[1] < ret[3].bbox[1]

-----------------------------------------------------------------------------
(* The context builder applied to the sequenced blocks of a page *)

MaxPageBlocks == 3
MaxLong == 141

\* n times the character c
Rep(c, n) == [i \in 1..n |-> c]

\* texts around the clip length; one of them has a newline before its last
\* character
LongTexts ==
    {Rep("x", n) : n \in ClipLen..MaxLong}
        \cup {Rep("x", MaxLong - 2) \o <<"NL", "y">>}

PageTexts ==
    {<<>>, <<" ", "NL">>, <<"b", " ", " ", UMINUS, "NL">>} \cup LongTexts

\* text blocks at one place, an image block, and a text block higher up on
\* the page
RawBlockChoices ==
    {RawBlock(Box(10, 20), t, 0) : t \in PageTexts}
        \cup {RawBlock(Box(10, 20), <<"i", "m", "g">>, 1)}
        \cup {RawBlock(Box(10, 10), <<"c">>, 0)}

InitContext ==
    /\ pc = "start"
    /\ text = <<>>
    /\ min_len = 0
    /\ require_equals = FALSE
    /\ page \in SeqsUpTo(RawBlockChoices, MaxPageBlocks)
    /\ blocks = NoBlocks
    /\ idx = 0
    /\ items = NoItems
    /\ ret = NoRet
    /\ RunIdle
    /\ LocatorIdle
    /\ ExcelIdle

\* blocks = sorted_blocks_by_position(extract_text_blocks(page))
LoadPage ==
    /\ pc = "start"
    /\ blocks' = sorted_blocks_by_position(extract_text_blocks(page))
    /\ pc' = "sequenced"
    /\ UNCHANGED <<text, min_len, require_equals, page, idx, items, ret>>
    /\ UNCHANGED <<runvars, locvars, xlvars>>

\* ctx = build_context(blocks, idx) for an index of the list
BuildContext ==
    /\ pc = "sequenced"
    /\ \E i \in 0..(Len(blocks) - 1) :
          /\ idx' = i
          /\ ret' = build_context(blocks, i)
    /\ pc' = "context"
    /\ UNCHANGED <<text, min_len, require_equals, page, blocks, items>>
    /\ UNCHANGED <<runvars, locvars, xlvars>>

SpecContext == InitContext /\ [][LoadPage \/ BuildContext]_vars

HasPrev == idx - 1 >= 0
HasNext == idx + 1 < Len(blocks)

\* the snippet of the block at index i (from 0)
Snippet(i) == clip(normalize_equation_text(blocks[i + 1].text))

\* C8: the context is made of the snippets of the blocks at idx-1 and idx+1
\* alone: both joined by " | ", the only one there is, or the empty text
ContextOfNeighbors ==
    pc = "context" =>
        /\ (HasPrev /\ HasNext) => ret = Snippet(idx - 1) \o <<" ", "|", " ">> \o Snippet(idx + 1)
        /\ (HasPrev /\ ~HasNext) => ret = Snippet(idx - 1)
        /\ (~HasPrev /\ HasNext) => ret = Snippet(idx + 1)
        /\ (~HasPrev /\ ~HasNext) => ret = <<>>

ContextOfNeighborsWitness ==
    /\ pc = "context"
    /\ Len(blocks) = 3
    /\ idx = 1
    /\ ret = <<"c", " ", "|", " ", "b", " ", "-">>

\* s is a snippet of the normalized text t: t itself when t has at most 140
\* characters, else a prefix of t and "...", at most 140 characters in all
IsSnippetOf(s, t) ==
    /\ Len(s) <= 140
    /\ Len(t) <= 140 => s = t
    /\ Len(t) > 140 =>
          /\ Len(s) >= 3
          /\ SubSeq(s, Len(s) - 2, Len(s)) = <<".", ".", ".">>
          /\ SubSeq(s, 1, Len(s) - 3) = SubSeq(t, 1, Len(s) - 3)

NormText(i) == normalize_equation_text(blocks[i + 1].text)

\* C9: every neighbor snippet of a context is the neighbor's normalized text
\* if that has at most 140 characters and else a prefix of it with "...",
\* never longer than 140; the context is never longer than 140 + 3 + 140
SnippetsClipped ==
    pc = "context" =>
        /\ Len(ret) <= 140 + 3 + 140
        /\ (HasPrev /\ ~HasNext) => IsSnippetOf(ret, NormText(idx - 1))
        /\ (~HasPrev /\ HasNext) => IsSnippetOf(ret, NormText(idx + 1))
        /\ (HasPrev /\ HasNext) =>
              \E k \in 0..(Len(ret) - 3) :
                  /\ SubSeq(ret, k + 1, k + 3) = <<" ", "|", " ">>
                  /\ IsSnippetOf(SubSeq(ret, 1, k), NormText(idx - 1))
                  /\ IsSnippetOf(SubSeq(ret, k + 4, Len(ret)), NormText(idx + 1))

SnippetsClippedWitness ==
    /\ pc = "context"
    /\ HasPrev /\ HasNext
    /\ Len(NormText(idx - 1)) = 141
    /\ Len(NormText(idx + 1)) = 140
    /\ Len(ret) = 140 + 3 + 140

-----------------------------------------------------------------------------
(* The deduplicator applied to a list of candidates *)

MaxItems == 3

bb1 == <<1000, 2000, 5000, 3000>>
bb1_jitter == <<1004, 1998, 5001, 3002>>
bb2 == <<1005, 2000, 5005, 3000>>

\* on page 1 every text at every box; on page 2 the items that repeat one of
\* page 1, and a near-duplicate of one of them
ItemChoices ==
    {<<1, t, bb>> :
        t \in {<<"A">>, <<"a", "=", "1">>, <<"a", "=", "1", "NL">>},
        bb \in {bb1, bb1_jitter, bb2}}
        \cup {<<2, t, bb1>> : t \in {<<"A">>, <<"a", "=", "1">>}}
        \cup {<<2, <<"A">>, bb1_jitter>>}

InitDedupe ==
    /\ pc = "start"
    /\ text = <<>>
    /\ min_len = 0
    /\ require_equals = FALSE
    /\ page = NoBlocks
    /\ blocks = NoBlocks
    /\ idx = 0
    /\ items \in SeqsUpTo(ItemChoices, MaxItems)
    /\ ret = NoRet
    /\ RunIdle
    /\ LocatorIdle
    /\ ExcelIdle

Dedupe ==
    /\ pc = "start"
    /\ ret' = dedupe(items)
    /\ pc' = "deduped"
    /\ UNCHANGED <<text, min_len, require_equals, page, blocks, idx, items>>
    /\ UNCHANGED <<runvars, locvars, xlvars>>

SpecDedupe == InitDedupe /\ [][Dedupe]_vars

\* the key of a triple: its page, its normalized text, its bounding box
\* rounded to one decimal
TripleKey(x) ==
    <<x[1], normalize_equation_text(x[2]), [i \in 1..4 |-> round1(x[3][i])]>>

\* the indices of the triples of xs that no earlier triple has the key of,
\* ascending
FirstOccurrences(xs) ==
    SelectSeq([i \in 1..Len(xs) |-> i],
              LAMBDA i : \A j \in 1..(i - 1) : TripleKey(xs[j]) # TripleKey(xs[i]))

\* C10 as stated: the output is the subsequence of the input made of the
\* first triple of every key
DedupeIsSubsequence ==
    pc = "deduped" =>
        ret = [k \in 1..Len(FirstOccurrences(items)) |->
                 items[FirstOccurrences(items)[k]]]

\* C10, amended: the output is made of the first triple of every key, in
\* the order of the input, each with its page and its bounding box as they
\* are and its text normalized; every key of the input appears exactly once
DedupeFirstOccurrences ==
    pc = "deduped" =>
        /\ ret = [k \in 1..Len(FirstOccurrences(items)) |->
                    LET x == items[FirstOccurrences(items)[k]]
                    IN  <<x[1], normalize_equation_text(x[2]), x[3]>>]
        /\ \A i, j \in 1..Len(ret) :
              TripleKey(ret[i]) = TripleKey(ret[j]) => i = j
        /\ {TripleKey(ret[i]) : i \in 1..Len(ret)}
              = {TripleKey(items[i]) : i \in 1..Len(items)}
        /\ items = << <<1, <<"A">>, bb1>>, <<1, <<"A">>, bb1>>, <<2, <<"A">>, bb1>> >>
              => ret = << <<1, <<"A">>, bb1>>, <<2, <<"A">>, bb1>> >>

DedupeFirstOccurrencesWitness ==
    /\ pc = "deduped"
    /\ Len(items) = 3
    /\ items[1] = <<1, <<"a", "=", "1", "NL">>, bb1_jitter>>
    /\ items[2] = <<1, <<"a", "=", "1">>, bb1>>
    /\ items[3] = <<2, <<"a", "=", "1">>, bb1>>
    /\ ret = << <<1, <<"a", "=", "1">>, bb1_jitter>>, <<2, <<"a", "=", "1">>, bb1>> >>

\* v rounded to one decimal, in hundredths: the nearest multiple of 10, a tie
\* going where the double of v lies
RoundedToTenth(v) ==
    LET lo == (v \div 10) * 10
    IN  IF v - lo < 5 THEN lo
        ELSE IF v - lo > 5 THEN lo + 10
        ELSE IF v \in TiesRoundedUp THEN lo + 10 ELSE lo

SamePageAndText(x, y) ==
    x[1] = y[1] /\ normalize_equation_text(x[2]) = normalize_equation_text(y[2])

\* the boxes differ by less than a tenth in every coordinate
DifferInHundredths(a, b) ==
    \A c \in 1..4 : a[c] - b[c] < 10 /\ b[c] - a[c] < 10

\* the boxes are equal coordinate by coordinate after rounding
SameRoundedBox(a, b) ==
    \A c \in 1..4 : RoundedToTenth(a[c]) = RoundedToTenth(b[c])

\* the records of the output that carry the box of x or of y, with the page
\* and the text of x
RecordsOf(x, y) ==
    {k \in 1..Len(ret) :
        /\ ret[k][1] = x[1]
        /\ ret[k][2] = normalize_equation_text(x[2])
        /\ ret[k][3] \in {x[3], y[3]}}

\* C11 as stated: two candidates of the same page and text whose boxes differ
\* only in the hundredths leave one record
RoundingAbsorbsHundredths ==
    pc = "deduped" =>
        \A i, j \in 1..Len(items) :
            (i < j /\ SamePageAndText(items[i], items[j])
                   /\ DifferInHundredths(items[i][3], items[j][3]))
                => Cardinality(RecordsOf(items[i], items[j])) <= 1

\* C11, amended: two candidates of the same page and text whose boxes round
\* to the same tenths in every coordinate leave one record; the boxes
\* (10.00, 20.00, 50.00, 30.00) and (10.04, 19.98, 50.01, 30.02) do
RoundingAbsorbsSameTenths ==
    pc = "deduped" =>
        /\ \A i, j \in 1..Len(items) :
              (i < j /\ SamePageAndText(items[i], items[j])
                     /\ SameRoundedBox(items[i][3], items[j][3]))
                  => Cardinality(RecordsOf(items[i], items[j])) <= 1
        /\ \A p \in {1, 2} :
              items = << <<p, <<"A">>, <<1000, 2000, 5000, 3000>> >>,
                         <<p, <<"A">>, <<1004, 1998, 5001, 3002>> >> >>
                  => ret = << <<p, <<"A">>, <<1000, 2000, 5000, 3000>> >> >>

RoundingAbsorbsSameTenthsWitness ==
    /\ pc = "deduped"
    /\ items = << <<1, <<"A">>, <<1000, 2000, 5000, 3000>> >>,
                  <<1, <<"A">>, <<1004, 1998, 5001, 3002>> >> >>
    /\ Len(ret) = 1

\* x and y are duplicates of each other: same page, same normalized text,
\* boxes equal after rounding
Duplicates(x, y) == SamePageAndText(x, y) /\ SameRoundedBox(x[3], y[3])

\* the records of the output that stand for the candidate x
RecordsFor(x) == {k \in 1..Len(ret) : Duplicates(ret[k], x)}

\* C12: every candidate is stood for by exactly one record, and two
\* candidates by the same record exactly when they have the same page, the
\* same normalized text and the same box after rounding to one decimal
DuplicateIffSameKey ==
    pc = "deduped" =>
        /\ \A i \in 1..Len(items) : Cardinality(RecordsFor(items[i])) = 1
        /\ \A i, j \in 1..Len(items) :
              RecordsFor(items[i]) = RecordsFor(items[j])
                  <=> Duplicates(items[i], items[j])
        /\ Len(ret) = Cardinality({RecordsFor(items[i]) : i \in 1..Len(items)})

DuplicateIffSameKeyWitness ==
    /\ pc = "deduped"
    /\ Len(items) = 3
    /\ items[1] = <<1, <<"a", "=", "1">>, bb1>>
    /\ items[2] = <<2, <<"a", "=", "1">>, bb1>>
    /\ items[3] = <<1, <<"a", "=", "1">>, bb2>>
    /\ Len(ret) = 3

-----------------------------------------------------------------------------
(* main: the run of the exporter *)

MaxDocBlocks == 3
MaxDocPages == 2

box_above == <<1000, 1000, 5000, 1500>>

\* an equation with its line break, the same equation detected a second
\* time a few hundredths of a point off, and a line of prose higher up
DocBlockChoices ==
    {RawBlock(bb1, VOUT_5V \o <<"NL">>, 0),
     RawBlock(bb1_jitter, VOUT_5V, 0),
     RawBlock(box_above, <<"s", "e", "e">>, 0)}

\* the blocks of the list f that the cut puts on page p
PageOfCut(f, cut, p) ==
    LET js == {j \in DOMAIN f : cut[j] = p}
    IN  IF js = {} THEN <<>> ELSE SubSeq(f, Least(js), Greatest(js))

\* the documents of at most np pages and nb blocks, the blocks taken from
\* the set choices
DocsOf(choices, nb, np) ==
    UNION {UNION {{[p \in 1..n |-> PageOfCut(f, cut, p)] :
                      cut \in {c \in [DOMAIN f -> 1..n] :
                                  \A i, j \in DOMAIN f : i <= j => c[i] <= c[j]}} :
                  f \in SeqsUpTo(choices, nb)} :
           n \in 0..np}

\* the documents of at most MaxDocPages pages and MaxDocBlocks blocks
DocChoices == DocsOf(DocBlockChoices, MaxDocBlocks, MaxDocPages)

\* what is at the path: the kind of thing, and the pages of a readable file
Pdf(kind, pages) == [kind |-> kind, pages |-> pages]

PdfChoices ==
    {Pdf("missing", <<>>), Pdf("corrupt", <<>>)}
        \cup {Pdf("readable", d) : d \in DocChoices}

InitMain ==
    /\ pc = "start"
    /\ text = <<>>
    /\ min_len = DefaultMinLen
    /\ require_equals = TRUE
    /\ page = <<>>
    /\ blocks = NoBlocks
    /\ idx = 0
    /\ items = NoItems
    /\ ret = NoRet
    /\ pdf \in PdfChoices
    /\ doc = <<>>
    /\ page_index = 0
    /\ candidates = <<>>
    /\ deduped_keyed = NoRet
    /\ ctx_map = <<>>
    /\ eq_items = <<>>
    /\ eq_id = 0
    /\ rec_i = 0
    /\ loads = <<>>
    /\ rendered = <<>>
    /\ xlsx = <<>>
    /\ error = "none"
    /\ exit_code = Running
    /\ LocatorIdle
    /\ ExcelIdle

\* an exception nothing catches: the interpreter ends with status 1
Raise(e) ==
    /\ error' = e
    /\ exit_code' = 1
    /\ pc' = "raised"

\* a slip: the path not looked at, a missing document read as an empty one
CheckPathLate ==
    /\ pc = "start"
    /\ pc' = "scan"
    /\ doc' = pdf.pages
    /\ UNCHANGED <<text, min_len, require_equals, page, blocks, idx, items, ret>>
    /\ UNCHANGED <<pdf, page_index, candidates, deduped_keyed, ctx_map,
                   eq_items, eq_id, rec_i, loads, rendered, xlsx, error,
                   exit_code>>
    /\ UNCHANGED <<locvars, xlvars>>

\* if not pdf_path.exists(): raise FileNotFoundError
CheckPath ==
    /\ pc = "start"
    /\ IF pdf.kind = "missing"
       THEN Raise("FileNotFoundError")
       ELSE /\ pc' = "open"
            /\ UNCHANGED <<error, exit_code>>
    /\ UNCHANGED <<text, min_len, require_equals, page, blocks, idx, items, ret>>
    /\ UNCHANGED <<pdf, doc, page_index, candidates, deduped_keyed, ctx_map,
                   eq_items, eq_id, rec_i, loads, rendered, xlsx>>
    /\ UNCHANGED <<locvars, xlvars>>

\* doc = fitz.open(pdf_path); candidates = []
OpenDocument ==
    /\ pc = "open"
    /\ IF pdf.kind = "corrupt"
       THEN /\ Raise("FileDataError")
            /\ UNCHANGED doc
       ELSE /\ doc' = pdf.pages
            /\ pc' = "scan"
            /\ UNCHANGED <<error, exit_code>>
    /\ UNCHANGED <<text, min_len, require_equals, page, blocks, idx, items, ret>>
    /\ UNCHANGED <<pdf, page_index, candidates, deduped_keyed, ctx_map,
                   eq_items, eq_id, rec_i, loads, rendered, xlsx>>
    /\ UNCHANGED <<locvars, xlvars>>

\* a call of doc.load_page(pno) and the loop it is made in
Load(at, pno) == [at |-> at, pno |-> pno]

\* for page_index in range(doc.page_count): page = doc.load_page(page_index);
\* blocks = sorted_blocks_by_position(extract_text_blocks(page))
ScanPage ==
    /\ pc = "scan"
    /\ page_index < Len(doc)
    /\ loads' = Append(loads, Load("scan", page_index))
    /\ page' = doc[page_index + 1]
    /\ blocks' = sorted_blocks_by_position(extract_text_blocks(page'))
    /\ idx' = 0
    /\ pc' = "blocks"
    /\ UNCHANGED <<text, min_len, require_equals, items, ret>>
    /\ UNCHANGED <<pdf, doc, page_index, candidates, deduped_keyed, ctx_map,
                   eq_items, eq_id, rec_i, rendered, xlsx, error, exit_code>>
    /\ UNCHANGED <<locvars, xlvars>>

\* one turn of the loop over the blocks of the page
ScanBlock ==
    /\ pc = "blocks"
    /\ idx < Len(blocks)
    /\ LET b == blocks[idx + 1]
           txt == block_text(b)
       IN  /\ text' = txt
           /\ IF txt = <<>> \/ ~looks_like_equation(txt, min_len, require_equals)
              THEN UNCHANGED candidates
              ELSE candidates' =
                       Append(candidates,
                              <<page_index + 1, txt, block_bbox(b),
                                build_context(blocks, idx)>>)
    /\ idx' = idx + 1
    /\ UNCHANGED <<pc, min_len, require_equals, page, blocks, items, ret>>
    /\ UNCHANGED <<pdf, doc, page_index, deduped_keyed, ctx_map, eq_items,
                   eq_id, rec_i, loads, rendered, xlsx, error, exit_code>>
    /\ UNCHANGED <<locvars, xlvars>>

\* the loop over the blocks is through: on to the next page
NextPage ==
    /\ pc = "blocks"
    /\ idx = Len(blocks)
    /\ page_index' = page_index + 1
    /\ pc' = "scan"
    /\ UNCHANGED <<text, min_len, require_equals, page, blocks, idx, items, ret>>
    /\ UNCHANGED <<pdf, doc, candidates, deduped_keyed, ctx_map, eq_items,
                   eq_id, rec_i, loads, rendered, xlsx, error, exit_code>>
    /\ UNCHANGED <<locvars, xlvars>>

\* the (p, t, bb) of the candidates, as the generator hands them to dedupe
Triples(cands) ==
    [k \in 1..Len(cands) |-> <<cands[k][1], cands[k][2], cands[k][3]>>]

\* a slip: dedupe called inside the loop over the pages
DedupeCandidatesEarly ==
    /\ pc = "scan"
    /\ page_index >= 1
    /\ items' = Triples(candidates)
    /\ deduped_keyed' = dedupe(items')
    /\ pc' = "deduped"
    /\ UNCHANGED <<text, min_len, require_equals, page, blocks, idx, ret>>
    /\ UNCHANGED <<pdf, doc, page_index, candidates, ctx_map, eq_items, eq_id,
                   rec_i, loads, rendered, xlsx, error, exit_code>>
    /\ UNCHANGED <<locvars, xlvars>>

\* deduped_keyed = dedupe((p, t, bb) for (p, t, bb, _ctx) in candidates),
\* after the loop over the pages
DedupeCandidates ==
    /\ pc = "scan"
    /\ page_index = Len(doc)
    /\ items' = Triples(candidates)
    /\ deduped_keyed' = dedupe(items')
    /\ pc' = "deduped"
    /\ UNCHANGED <<text, min_len, require_equals, page, blocks, idx, ret>>
    /\ UNCHANGED <<pdf, doc, page_index, candidates, ctx_map, eq_items, eq_id,
                   rec_i, loads, rendered, xlsx, error, exit_code>>
    /\ UNCHANGED <<locvars, xlvars>>

\* the key main computes for a candidate
CandidateKey(c) == dedupe_key(c[1], normalize_equation_text(c[2]), c[3])

\* a slip: ctx_map[key] = ctx, the last candidate of a key winning
ContextMapLast(cands) ==
    [k \in {CandidateKey(cands[j]) : j \in DOMAIN cands} |->
        cands[Greatest({j \in DOMAIN cands : CandidateKey(cands[j]) = k})][4]]

\* for p, t, bb, ctx in candidates: ctx_map.setdefault(key, ctx)
ContextMap(cands) ==
    [k \in {CandidateKey(cands[j]) : j \in DOMAIN cands} |->
        cands[Least({j \in DOMAIN cands : CandidateKey(cands[j]) = k})][4]]

\* eq_items = []; eq_id = 1; ctx_map built
StartRecords ==
    /\ pc = "deduped"
    /\ eq_items' = <<>>
    /\ eq_id' = 1
    /\ ctx_map' = ContextMap(candidates)
    /\ rec_i' = 0
    /\ pc' = "records"
    /\ UNCHANGED callvars_but_pc
    /\ UNCHANGED <<pdf, doc, page_index, candidates, deduped_keyed, loads,
                   rendered, xlsx, error, exit_code>>
    /\ UNCHANGED <<locvars, xlvars>>

\* images_dir / f"eq_p{page_num:03d}_{eq_id:04d}.png"
ImagePath(page_num, id) == <<"eq_p", page_num, id>>

EquationItem(id, page_num, t, ctx, bbox, image_path) ==
    [eq_id |-> id, page |-> page_num, text |-> t, context |-> ctx,
     bbox |-> bbox, image_path |-> image_path]

\* a slip: the identifier stepped by two
next_eq_id_skip(id) == id + 2

\* eq_id += 1
next_eq_id(id) == id + 1

\* one turn of the loop over deduped_keyed; render_crop saves the image or
\* raises, and nothing in main catches what it raises
BuildRecord ==
    /\ pc = "records"
    /\ rec_i < Len(deduped_keyed)
    /\ LET page_num == deduped_keyed[rec_i + 1][1]
           text_norm == deduped_keyed[rec_i + 1][2]
           bbox == deduped_keyed[rec_i + 1][3]
           img_path == ImagePath(page_num, eq_id)
           k == dedupe_key(page_num, text_norm, bbox)
           ctx == IF k \in DOMAIN ctx_map THEN ctx_map[k] ELSE <<>>
       IN  /\ loads' = Append(loads, Load("records", page_num - 1))
           /\ \E render_ok \in BOOLEAN :
                 IF render_ok
                 THEN /\ rendered' = Append(rendered, img_path)
                      /\ eq_items' =
                             Append(eq_items,
                                    EquationItem(eq_id, page_num, text_norm,
                                                 ctx, bbox, img_path))
                      /\ eq_id' = next_eq_id(eq_id)
                      /\ rec_i' = rec_i + 1
                      /\ UNCHANGED <<pc, error, exit_code>>
                 ELSE /\ Raise("render_crop failed")
                      /\ UNCHANGED <<rendered, eq_items, eq_id, rec_i>>
    /\ UNCHANGED callvars_but_pc
    /\ UNCHANGED <<pdf, doc, page_index, candidates, deduped_keyed, ctx_map,
                   xlsx>>
    /\ UNCHANGED <<locvars, xlvars>>

\* the row write_excel writes for a record; the image is in the row unless
\* embedding it raised
Row(eq, embedded) ==
    [ID |-> eq.eq_id, Page |-> eq.page, Equation |-> eq.text,
     Context |-> eq.context, Snapshot |-> embedded]

\* write_excel(eq_items, out_xlsx), after the loop over deduped_keyed
WriteExcel ==
    /\ pc = "records"
    /\ rec_i = Len(deduped_keyed)
    /\ \E embedded \in SUBSET DOMAIN eq_items :
          xlsx' = Append(xlsx, [i \in DOMAIN eq_items |->
                                   Row(eq_items[i], i \in embedded)])
    /\ pc' = "written"
    /\ UNCHANGED callvars_but_pc
    /\ UNCHANGED <<pdf, doc, page_index, candidates, deduped_keyed, ctx_map,
                   eq_items, eq_id, rec_i, loads, rendered, error, exit_code>>
    /\ UNCHANGED <<locvars, xlvars>>

\* return 0, handed to SystemExit
Return ==
    /\ pc = "written"
    /\ exit_code' = 0
    /\ pc' = "done"
    /\ UNCHANGED callvars_but_pc
    /\ UNCHANGED <<pdf, doc, page_index, candidates, deduped_keyed, ctx_map,
                   eq_items, eq_id, rec_i, loads, rendered, xlsx, error>>
    /\ UNCHANGED <<locvars, xlvars>>

NextMain ==
    \/ CheckPath
    \/ OpenDocument
    \/ ScanPage
    \/ ScanBlock
    \/ NextPage
    \/ DedupeCandidates
    \/ StartRecords
    \/ BuildRecord
    \/ WriteExcel
    \/ Return

SpecMain == InitMain /\ [][NextMain]_vars

\* the key of an emitted record: page, normalized text, box rounded to one
\* decimal
RecordKey(e) ==
    <<e.page, normalize_equation_text(e.text),
      [c \in 1..4 |-> RoundedToTenth(e.bbox[c])]>>

\* C13: at every point of the run no two emitted records have the same
\* page, the same normalized text and the same rounded box
NoTwoRecordsShareKey ==
    \A i, j \in DOMAIN eq_items :
        i # j => RecordKey(eq_items[i]) # RecordKey(eq_items[j])

\* a finished run in which one region was detected twice on the first page
\* and once more on the second
NoTwoRecordsShareKeyWitness ==
    /\ pc = "done"
    /\ Len(candidates) = 3
    /\ Len(eq_items) = 2
    /\ candidates[1][1] = 1
    /\ candidates[2][1] = 1
    /\ candidates[1][3] # candidates[2][3]

\* the unique candidates in discovery order: the first candidate of every key
UniqueCandidates ==
    LET first == FirstOccurrences(Triples(candidates))
    IN  [k \in 1..Len(first) |-> candidates[first[k]]]

\* C14: at every point of the record-building loop the k-th record carries
\* the identifier k and stands for the k-th unique candidate in discovery
\* order; once the loop is through, the identifiers are 1..N for the N unique
\* candidates, in the workbook as well
IdentifiersDense ==
    /\ \A k \in DOMAIN eq_items :
          /\ eq_items[k].eq_id = k
          /\ k <= Len(UniqueCandidates)
          /\ eq_items[k].page = UniqueCandidates[k][1]
          /\ eq_items[k].bbox = UniqueCandidates[k][3]
          /\ eq_items[k].text = normalize_equation_text(UniqueCandidates[k][2])
    /\ pc \in {"written", "done"} =>
          /\ {eq_items[k].eq_id : k \in DOMAIN eq_items}
                 = 1..Len(UniqueCandidates)
          /\ Len(xlsx) = 1
          /\ Len(xlsx[1]) = Len(UniqueCandidates)
          /\ \A k \in DOMAIN xlsx[1] : xlsx[1][k].ID = k

\* the loop has emitted two records of three candidates and has not ended
IdentifiersDenseWitness ==
    /\ pc = "records"
    /\ Len(candidates) = 3
    /\ Len(eq_items) = 2
    /\ eq_items[2].eq_id = 2
    /\ eq_items[2].page = 2

\* C17 as stated: a run is given up only for the document, never for the
\* snapshot of one record, and the workbook of a run that got as far as the
\* records holds a row for every one of them, with or without its image
PerRegionFailureNonFatal ==
    /\ pc = "raised" => error \in {"FileNotFoundError", "FileDataError"}
    /\ pc \in {"written", "done"} =>
          /\ Len(xlsx) = 1
          /\ Len(xlsx[1]) = Len(deduped_keyed)

\* C18: with nothing at the path the run ends at the check of the path, with
\* FileNotFoundError and a non-zero status, no page loaded, no image saved,
\* no workbook written; a run that completes has status 0
ConfigErrorFatal ==
    /\ pdf.kind = "missing" =>
          /\ pc \in {"start", "raised"}
          /\ loads = <<>>
          /\ rendered = <<>>
          /\ xlsx = <<>>
          /\ candidates = <<>>
          /\ pc = "raised" => error = "FileNotFoundError" /\ exit_code = 1
    /\ exit_code = 0 <=> pc = "done"
    /\ pc = "done" => error = "none" /\ Len(xlsx) = 1

\* the run has ended on the missing document
ConfigErrorFatalWitness ==
    /\ pdf.kind = "missing"
    /\ pc = "raised"
    /\ exit_code = 1

\* the calls of doc.load_page made in the loop over the pages, and those made
\* in the loop over the records
ScanLoads == SelectSeq(loads, LAMBDA l : l.at = "scan")
RecordLoads == SelectSeq(loads, LAMBDA l : l.at = "records")

\* the candidates that the first n blocks of page p (from 1) give, in the
\* order of the sorted list of the page
CandidatesOfPage(p, n) ==
    LET bs == sorted_blocks_by_position(extract_text_blocks(doc[p]))
        hits == SelectSeq([i \in 1..n |-> i],
                          LAMBDA i : looks_like_equation(block_text(bs[i]),
                                                         min_len, require_equals))
    IN  [k \in 1..Len(hits) |->
            <<p, block_text(bs[hits[k]]), block_bbox(bs[hits[k]]),
              build_context(bs, hits[k] - 1)>>]

BlocksOfPage(p) ==
    Len(sorted_blocks_by_position(extract_text_blocks(doc[p])))

\* the candidates of the pages 1..m
RECURSIVE CandidatesOfPages(_)
CandidatesOfPages(m) ==
    IF m = 0 THEN <<>>
    ELSE CandidatesOfPages(m - 1) \o CandidatesOfPage(m, BlocksOfPage(m))

\* C20: the pages are loaded for scanning in the order 0, 1, 2, ..., each
\* once; when page i + 1 is loaded the candidates of the pages up to i are
\* complete, and while a page is scanned only its own candidates are added;
\* dedupe is called only when the last page is scanned, on the complete list
\* of candidates; no identifier exists, no image is saved and no page is
\* loaded for a record before that
PhaseOrdering ==
    /\ \A k \in DOMAIN ScanLoads : ScanLoads[k].pno = k - 1
    /\ Len(ScanLoads) <= Len(doc)
    /\ IF pc = "blocks"
       THEN /\ Len(ScanLoads) = page_index + 1
            /\ candidates = CandidatesOfPages(page_index)
                                \o CandidatesOfPage(page_index + 1, idx)
       ELSE /\ Len(ScanLoads) = page_index
            /\ candidates = CandidatesOfPages(page_index)
    /\ (\/ pc \in {"deduped", "records", "written", "done"}
        \/ eq_id # 0
        \/ eq_items # <<>>
        \/ rendered # <<>>
        \/ RecordLoads # <<>>) =>
          /\ Len(ScanLoads) = Len(doc)
          /\ candidates = CandidatesOfPages(Len(doc))
          /\ items = Triples(candidates)
          /\ deduped_keyed = dedupe(Triples(candidates))

\* two pages scanned, each with a candidate, and the first image saved
PhaseOrderingWitness ==
    /\ pc = "records"
    /\ Len(doc) = 2
    /\ Len(ScanLoads) = 2
    /\ Len(candidates) = 2
    /\ candidates[1][1] = 1
    /\ candidates[2][1] = 2
    /\ Len(rendered) = 1

-----------------------------------------------------------------------------
(* looks_like_equation and dedupe on malformed but well-typed input *)

MaxDegenerate == 2

\* a box without area and a box with its corners the wrong way round
bb_zero_area == <<1000, 2000, 1000, 2000>>
bb_inverted == <<5000, 3000, 1000, 2000>>

\* the empty string, whitespace only, and a lone relational character
DegenerateTexts == {<<>>, <<" ">>, <<" ", "TAB", "NL">>, <<"=">>}

DegenerateItemChoices ==
    {<<1, t, bb>> : t \in {<<>>, <<" ", "NL">>},
                    bb \in {bb_zero_area, bb_inverted}}

InitDegenerate ==
    /\ pc = "start"
    /\ text \in DegenerateTexts
    /\ min_len \in {0, 1, DefaultMinLen}
    /\ require_equals \in BOOLEAN
    /\ page = NoBlocks
    /\ blocks = NoBlocks
    /\ idx = 0
    /\ items \in SeqsUpTo(DegenerateItemChoices, MaxDegenerate)
    /\ ret = <<>>
    /\ RunIdle
    /\ LocatorIdle
    /\ ExcelIdle

\* looks_like_equation(text, min_len=min_len, require_equals=require_equals);
\* ret is the list of the values returned so far
CallClassifier ==
    /\ pc = "start"
    /\ ret' = Append(ret, looks_like_equation(text, min_len, require_equals))
    /\ pc' = "classified"
    /\ UNCHANGED <<text, min_len, require_equals, page, blocks, idx, items>>
    /\ UNCHANGED <<runvars, locvars, xlvars>>

\* dedupe(items)
CallDedupe ==
    /\ pc = "classified"
    /\ ret' = Append(ret, dedupe(items))
    /\ pc' = "deduped"
    /\ UNCHANGED <<text, min_len, require_equals, page, blocks, idx, items>>
    /\ UNCHANGED <<runvars, locvars, xlvars>>

NextDegenerate ==
    \/ CallClassifier
    \/ CallDedupe

SpecDegenerate == InitDegenerate /\ [][NextDegenerate]_vars

\* C19: on the empty string, on whitespace, on an empty list and on boxes
\* without area or inverted, looks_like_equation returns a boolean, false for
\* the empty string when min_len >= 1, and dedupe returns a list, empty for
\* the empty list, in which every item is stood for by a record with its
\* page, its normalized text and the box of an item
TotalOnDegenerateInput ==
    /\ pc \in {"classified", "deduped"} =>
          /\ ret[1] \in BOOLEAN
          /\ (text = <<>> /\ min_len >= 1) => ret[1] = FALSE
    /\ pc = "deduped" =>
          /\ DOMAIN ret[2] = 1..Len(ret[2])
          /\ Len(ret[2]) <= Len(items)
          /\ items = <<>> => ret[2] = <<>>
          /\ \A i \in DOMAIN items : \E k \in DOMAIN ret[2] :
                /\ ret[2][k][1] = items[i][1]
                /\ ret[2][k][2] = normalize_equation_text(items[i][2])
                /\ SameRoundedBox(ret[2][k][3], items[i][3])
          /\ \A k \in DOMAIN ret[2] : \E i \in DOMAIN items :
                ret[2][k][3] = items[i][3]

\* the empty string classified with min_len 1, then two items of empty text
\* deduplicated, one with a box without area and one with an inverted box
TotalOnDegenerateInputWitness ==
    /\ pc = "deduped"
    /\ text = <<>>
    /\ min_len = 1
    /\ ret[1] = FALSE
    /\ items = << <<1, <<>>, bb_zero_area>>, <<1, <<" ", "NL">>, bb_inverted>> >>
    /\ Len(ret[2]) = 2

-----------------------------------------------------------------------------
(* Snapshot Locator: extract_equation_images of lm5148_design_tool.py *)
(* Coordinates are whole points here.                                  *)

MaxLocPages == 2
MaxLabels == 2

MarginAbove == 180
MarginBelow == 30

PageWidth == 612
PageHeight == 792

Labels == {31, 42}

\* match rectangles near the top, in the middle and near the bottom of a page
rect_top == <<500, 100, 520, 112>>
rect_mid == <<500, 400, 520, 412>>
rect_bottom == <<500, 770, 520, 782>>

\* a page: its rect and what page.search_for gives for the token of a label
LocPage(m31, m42) ==
    [width |-> PageWidth, height |-> PageHeight,
     matches |-> [l \in Labels |-> IF l = 31 THEN m31 ELSE m42]]

LocPageChoices ==
    {LocPage(<<>>, <<>>),
     LocPage(<<rect_top>>, <<>>),
     LocPage(<<rect_mid, rect_bottom>>, <<>>),
     LocPage(<<rect_bottom>>, <<rect_mid>>)}

\* the page ranges, some of them reaching behind the last page
RangeChoices ==
    {<<a, b>> : a \in 1..MaxLocPages, b \in 0..(MaxLocPages + 1)}

InitLocator ==
    /\ pc = "labels"
    /\ text = <<>>
    /\ min_len = 0
    /\ require_equals = FALSE
    /\ page = NoBlocks
    /\ blocks = NoBlocks
    /\ idx = 0
    /\ items = NoItems
    /\ ret = NoRet
    /\ pdf = NoRet
    /\ doc \in SeqsUpTo(LocPageChoices, MaxLocPages)
    /\ page_index = 0
    /\ candidates = <<>>
    /\ deduped_keyed = NoRet
    /\ ctx_map = <<>>
    /\ eq_items = <<>>
    /\ eq_id = 0
    /\ rec_i = 0
    /\ loads = <<>>
    /\ rendered = <<>>
    /\ xlsx = <<>>
    /\ error = "none"
    /\ exit_code = Running
    /\ equation_numbers \in SeqsUpTo(Labels, MaxLabels)
    /\ pages_1based \in RangeChoices
    /\ eq_pos = 0
    /\ found = FALSE
    /\ eq_to_path = <<>>
    /\ ExcelIdle

Max(a, b) == IF a >= b THEN a ELSE b
Min(a, b) == IF a <= b THEN a ELSE b

\* a slip: the margins added without clipping to the page
crop_rect_unclipped(r, pg) ==
    <<0, r[2] - MarginAbove, pg.width, r[4] + MarginBelow>>

\* clip = fitz.Rect(0, max(0, r.y0 - 180), page.rect.width,
\*                  min(page.rect.height, r.y1 + 30))
crop_rect(r, pg) ==
    <<0, Max(0, r[2] - MarginAbove), pg.width, Min(pg.height, r[4] + MarginBelow)>>

\* out_dir / f"eq_{eq}_p{pno+1}.png"
CropPath(eq, pno) == <<"eq_", eq, "_p", pno + 1>>

\* a saved crop: the turn of the loop over the labels it was made in, the
\* label, the page, the clip and the file
Crop(at, eq, pno, clip_rect) ==
    [at |-> at, eq |-> eq, pno |-> pno, clip |-> clip_rect,
     path |-> CropPath(eq, pno)]

\* for eq in equation_numbers: token = f"({eq})"; found = False; the loop
\* over the pages starts at pages_1based[0] - 1
NextLabel ==
    /\ pc = "labels"
    /\ eq_pos < Len(equation_numbers)
    /\ found' = FALSE
    /\ page_index' = pages_1based[1] - 1
    /\ pc' = "pages"
    /\ UNCHANGED callvars_but_pc
    /\ UNCHANGED <<pdf, doc, candidates, deduped_keyed, ctx_map, eq_items,
                   eq_id, rec_i, loads, rendered, xlsx, error, exit_code>>
    /\ UNCHANGED <<equation_numbers, pages_1based, eq_pos, eq_to_path>>
    /\ UNCHANGED xlvars

\* one turn of the loop over the pages: load_page raises ValueError for a
\* page the document does not have; a page without a match is passed over;
\* on a page with a match the crop is saved and the loop left
SearchPage ==
    /\ pc = "pages"
    /\ page_index < pages_1based[2]
    /\ LET eq == equation_numbers[eq_pos + 1]
       IN  IF page_index >= Len(doc)
           THEN /\ error' = "ValueError"
                /\ pc' = "raised"
                /\ UNCHANGED <<page_index, loads, rendered, eq_pos, found,
                               eq_to_path>>
           ELSE LET pg == doc[page_index + 1]
                    rects == pg.matches[eq]
                IN  /\ loads' = Append(loads, Load(eq_pos + 1, page_index))
                    /\ IF rects = <<>>
                       THEN /\ page_index' = page_index + 1
                            /\ UNCHANGED <<pc, rendered, eq_pos, found,
                                           eq_to_path>>
                       ELSE /\ rendered' =
                                   Append(rendered,
                                          Crop(eq_pos + 1, eq, page_index,
                                               crop_rect(rects[1], pg)))
                            /\ eq_to_path' =
                                   [l \in DOMAIN eq_to_path \cup {eq} |->
                                       IF l = eq THEN CropPath(eq, page_index)
                                       ELSE eq_to_path[l]]
                            /\ found' = TRUE
                            /\ eq_pos' = eq_pos + 1
                            /\ pc' = "labels"
                            /\ UNCHANGED page_index
                    /\ UNCHANGED error
    /\ UNCHANGED callvars_but_pc
    /\ UNCHANGED <<pdf, doc, candidates, deduped_keyed, ctx_map, eq_items,
                   eq_id, rec_i, xlsx, exit_code>>
    /\ UNCHANGED <<equation_numbers, pages_1based>>
    /\ UNCHANGED xlvars

\* the loop over the pages ends without a match: if not found: continue
LabelNotFound ==
    /\ pc = "pages"
    /\ page_index >= pages_1based[2]
    /\ eq_pos' = eq_pos + 1
    /\ pc' = "labels"
    /\ UNCHANGED callvars_but_pc
    /\ UNCHANGED runvars
    /\ UNCHANGED <<equation_numbers, pages_1based, found, eq_to_path>>
    /\ UNCHANGED xlvars

\* return eq_to_path
ReturnMapping ==
    /\ pc = "labels"
    /\ eq_pos = Len(equation_numbers)
    /\ ret' = eq_to_path
    /\ pc' = "returned"
    /\ UNCHANGED <<text, min_len, require_equals, page, blocks, idx, items>>
    /\ UNCHANGED runvars
    /\ UNCHANGED <<locvars, xlvars>>

NextLocator ==
    \/ NextLabel
    \/ SearchPage
    \/ LabelNotFound
    \/ ReturnMapping

SpecLocator == InitLocator /\ [][NextLocator]_vars

\* the pages of the range that the document has (numbered from 0), and
\* those of them on which the token of the label eq is found
PagesInRange ==
    {p \in (pages_1based[1] - 1)..(pages_1based[2] - 1) : p < Len(doc)}
PagesWith(eq) == {p \in PagesInRange : doc[p + 1].matches[eq] # <<>>}

\* the crops saved and the pages loaded in turn i of the loop over the labels
CropsAt(i) == {k \in DOMAIN rendered : rendered[k].at = i}
LoadsAt(i) == SelectSeq(loads, LAMBDA l : l.at = i)

\* C15: for every label the pages are loaded in increasing order from the
\* start of the range and none behind the first page with a match; a crop
\* comes from that page and from its first match rectangle r, and spans the
\* page width from max(0, r.y0 - 180) to min(page height, r.y1 + 30), inside
\* the page; there is one crop for a label whose search is through and that
\* has a match, and never more than one
CropFromFirstMatch ==
    /\ \A k \in DOMAIN rendered :
          LET c == rendered[k]
              pg == doc[c.pno + 1]
              r == pg.matches[c.eq][1]
              above == r[2] - MarginAbove
              below == r[4] + MarginBelow
          IN  /\ c.eq = equation_numbers[c.at]
              /\ PagesWith(c.eq) # {}
              /\ \A p \in PagesWith(c.eq) : c.pno <= p
              /\ c.clip[1] = 0
              /\ c.clip[2] = (IF above > 0 THEN above ELSE 0)
              /\ c.clip[3] = pg.width
              /\ c.clip[4] = (IF below < pg.height THEN below ELSE pg.height)
              /\ 0 <= c.clip[2]
              /\ c.clip[2] <= c.clip[4]
              /\ c.clip[4] <= pg.height
              /\ CropsAt(c.at) = {k}
    /\ \A i \in DOMAIN equation_numbers :
          /\ \A j \in DOMAIN LoadsAt(i) :
                /\ LoadsAt(i)[j].pno = pages_1based[1] - 1 + (j - 1)
                /\ \A p \in PagesWith(equation_numbers[i]) :
                      LoadsAt(i)[j].pno <= p
    /\ \A i \in 1..eq_pos :
          PagesWith(equation_numbers[i]) # {} => Cardinality(CropsAt(i)) = 1

\* the token of label 31 is not on the first page and twice on the second:
\* the crop is cut around the upper of the two matches
CropFromFirstMatchWitness ==
    /\ pc = "returned"
    /\ pages_1based = <<1, 2>>
    /\ Len(doc) = 2
    /\ doc[1].matches[31] = <<>>
    /\ doc[2].matches[31] = <<rect_mid, rect_bottom>>
    /\ equation_numbers = <<31>>
    /\ Len(rendered) = 1
    /\ rendered[1].pno = 1
    /\ rendered[1].clip = <<0, 220, 612, 442>>

\* C16 as stated: no error is raised; when the call returns, every label
\* asked for was searched on all pages of the range up to its first match,
\* and the mapping has an entry for a label exactly when a page of the range
\* has its token
LookupMissSoft ==
    /\ error = "none"
    /\ pc # "raised"
    /\ pc = "returned" =>
          /\ \A i \in DOMAIN equation_numbers :
                \/ PagesWith(equation_numbers[i]) # {}
                \/ Len(LoadsAt(i)) = Cardinality(PagesInRange)
          /\ \A l \in Labels :
                l \in DOMAIN ret <=>
                    \E i \in DOMAIN equation_numbers :
                        equation_numbers[i] = l /\ PagesWith(l) # {}

-----------------------------------------------------------------------------
(* main on pages with several equations *)

MaxLayoutBlocks == 2

box_right_above == <<3000, 1000, 7000, 1500>>

IOUT_2A == <<"I", "O", "U", "T", " ", "=", " ", "2", " ", "A">>

\* an equation, the same equation further right on the same line, the same
\* equation detected a second time, and another equation higher up and
\* further right
LayoutBlockChoices ==
    {RawBlock(bb1, VOUT_5V \o <<"NL">>, 0),
     RawBlock(bb2, VOUT_5V, 0),
     RawBlock(bb1_jitter, VOUT_5V, 0),
     RawBlock(box_right_above, IOUT_2A, 0)}

InitLayout ==
    /\ pc = "start"
    /\ text = <<>>
    /\ min_len = DefaultMinLen
    /\ require_equals = TRUE
    /\ page = <<>>
    /\ blocks = NoBlocks
    /\ idx = 0
    /\ items = NoItems
    /\ ret = NoRet
    /\ pdf \in {Pdf("readable", d) :
                   d \in DocsOf(LayoutBlockChoices, MaxLayoutBlocks, MaxDocPages)}
    /\ doc = <<>>
    /\ page_index = 0
    /\ candidates = <<>>
    /\ deduped_keyed = NoRet
    /\ ctx_map = <<>>
    /\ eq_items = <<>>
    /\ eq_id = 0
    /\ rec_i = 0
    /\ loads = <<>>
    /\ rendered = <<>>
    /\ xlsx = <<>>
    /\ error = "none"
    /\ exit_code = Running
    /\ LocatorIdle
    /\ ExcelIdle

SpecLayout == InitLayout /\ [][NextMain]_vars

\* record e does not come behind record f in reading order: an earlier
\* page, or the same page and (y0, x0) not greater
ReadsNoLater(e, f) ==
    \/ e.page < f.page
    \/ /\ e.page = f.page
       /\ \/ e.bbox[2] < f.bbox[2]
          \/ e.bbox[2] = f.bbox[2] /\ e.bbox[1] <= f.bbox[1]

\* C21: every record's page is one of the pages 1..page_count of the
\* document, and of two records the one with the smaller identifier is on an
\* earlier page, or on the same page with (y0, x0) not greater
RecordsInReadingOrder ==
    /\ \A k \in DOMAIN eq_items : eq_items[k].page \in 1..Len(doc)
    /\ \A i, j \in DOMAIN eq_items :
          eq_items[i].eq_id < eq_items[j].eq_id =>
              ReadsNoLater(eq_items[i], eq_items[j])

\* a page given as the equation on the right, then the one higher up: the
\* records come out the other way round
RecordsInReadingOrderWitness ==
    /\ pc = "done"
    /\ Len(doc) = 1
    /\ doc[1] = <<RawBlock(bb2, VOUT_5V, 0), RawBlock(box_right_above, IOUT_2A, 0)>>
    /\ Len(eq_items) = 2
    /\ eq_items[1].bbox = box_right_above
    /\ eq_items[2].bbox = bb2

\* the key of a candidate (page, text, bbox, context)
KeyOfCandidate(c) ==
    <<c[1], normalize_equation_text(c[2]),
      [i \in 1..4 |-> RoundedToTenth(c[3][i])]>>

\* the places in the candidate list of the candidates with the key of e
CandidatesOfRecord(e) ==
    {j \in DOMAIN candidates : KeyOfCandidate(candidates[j]) = RecordKey(e)}

\* C22: every record has candidates with its key, and its page, text, box
\* and context are those of the first of them: the text normalized, the box
\* as it was found, the context as it was built for that candidate
RecordFromFirstCandidate ==
    \A k \in DOMAIN eq_items :
        LET e == eq_items[k]
            js == CandidatesOfRecord(e)
        IN  /\ js # {}
            /\ \E j \in js :
                  /\ \A i \in js : j <= i
                  /\ e.page = candidates[j][1]
                  /\ e.text = normalize_equation_text(candidates[j][2])
                  /\ e.bbox = candidates[j][3]
                  /\ e.context = candidates[j][4]

\* one region detected twice below a line of prose: the two candidates
\* differ in box and in context, and the record has those of the first
RecordFromFirstCandidateWitness ==
    /\ pc = "done"
    /\ Len(candidates) = 2
    /\ Len(eq_items) = 1
    /\ candidates[1][3] = bb1_jitter
    /\ candidates[2][3] = bb1
    /\ candidates[1][4] # candidates[2][4]
    /\ eq_items[1].bbox = bb1_jitter
    /\ eq_items[1].context = candidates[1][4]

-----------------------------------------------------------------------------
(* dedupe applied to its own output *)

\* dedupe called on what dedupe returned; items stays the input of the
\* first call
DedupeAgain ==
    /\ pc = "deduped"
    /\ ret' = dedupe(ret)
    /\ pc' = "deduped again"
    /\ UNCHANGED <<text, min_len, require_equals, page, blocks, idx, items>>
    /\ UNCHANGED <<runvars, locvars, xlvars>>

NextRepeat ==
    \/ Dedupe
    \/ DedupeAgain

SpecRepeat == InitDedupe /\ [][NextRepeat]_vars

\* C23: dedupe applied to its own output gives that output again; the texts
\* of the output are normalized and no two of its entries have the same key
DedupeIdempotent ==
    /\ pc = "deduped" =>
          /\ \A k \in DOMAIN ret : normalize_equation_text(ret[k][2]) = ret[k][2]
          /\ \A i, j \in DOMAIN ret :
                i # j => KeyOfCandidate(ret[i]) # KeyOfCandidate(ret[j])
    /\ pc = "deduped again" => ret = dedupe(items)

\* the first call took three items, two of them duplicates whose text had a
\* line break to normalize away, and the second call has returned
DedupeIdempotentWitness ==
    /\ pc = "deduped again"
    /\ Len(items) = 3
    /\ items[1] = <<1, <<"a", "=", "1", "NL">>, bb1>>
    /\ items[2] = <<1, <<"a", "=", "1", "NL">>, bb1_jitter>>
    /\ items[3][1] = 2
    /\ Len(ret) = 2
    /\ ret[1] = <<1, <<"a", "=", "1">>, bb1>>

-----------------------------------------------------------------------------
(* fill_quickstart_excel of quickstart_excel_com.py *)

\* name.startswith(prefix)
startswith(name, prefix) ==
    /\ Len(name) >= Len(prefix)
    /\ SubSeq(name, 1, Len(prefix)) = prefix

LockFilePrefix == <<"~", "$">>

\* a template, the lock file Excel keeps beside an open template, and names
\* that hold the two characters elsewhere
TemplateNames ==
    {<<"t", ".", "x">>, <<"~", "$", "t", ".", "x">>, <<"~", "$">>,
     <<"$", "~", "t">>, <<"~", "t", "$">>, <<"t", "~", "$">>, <<"~">>, <<>>}

InitExcel ==
    /\ pc = "import"
    /\ text = <<>>
    /\ min_len = 0
    /\ require_equals = FALSE
    /\ page = NoBlocks
    /\ blocks = NoBlocks
    /\ idx = 0
    /\ items = NoItems
    /\ ret = NoRet
    /\ RunIdle
    /\ LocatorIdle
    /\ template_name \in TemplateNames
    /\ out_xlsx \in BOOLEAN
    /\ excel = "none"
    /\ wb = "none"
    /\ calls = <<>>

\* a call made to Excel and whether it came back or raised
Call(name, ok) == [call |-> name, ok |-> ok]

\* what no action of fill_quickstart_excel changes
xl_fixed == <<callvars_but_pc, pdf, doc, page_index, candidates,
              deduped_keyed, ctx_map, eq_items, eq_id, rec_i, loads, rendered,
              xlsx, exit_code, locvars, template_name, out_xlsx>>

\* import win32com.client, RuntimeError if it cannot be imported
ImportWin32 ==
    /\ pc = "import"
    /\ \E ok \in BOOLEAN :
          IF ok
          THEN /\ pc' = "template"
               /\ UNCHANGED error
          ELSE /\ error' = "RuntimeError"
               /\ pc' = "raised"
    /\ UNCHANGED <<xl_fixed, excel, wb, calls>>

\* if template_path.name.startswith("~$"): raise ValueError
CheckTemplate ==
    /\ pc = "template"
    /\ IF startswith(template_name, LockFilePrefix)
       THEN /\ error' = "ValueError"
            /\ pc' = "raised"
       ELSE /\ pc' = "inputs"
            /\ UNCHANGED error
    /\ UNCHANGED <<xl_fixed, excel, wb, calls>>

\* inp = _load_inputs_from_webapp_json(json_path) and the mkdir calls, which
\* raise on an unreadable file, a missing key or a directory that cannot be
\* made
LoadInputs ==
    /\ pc = "inputs"
    /\ \E ok \in BOOLEAN :
          IF ok
          THEN /\ pc' = "DispatchEx"
               /\ UNCHANGED error
          ELSE /\ error' = "inputs failed"
               /\ pc' = "raised"
    /\ UNCHANGED <<xl_fixed, excel, wb, calls>>

\* a statement of the try block: the call is made; when it comes back the
\* block goes on at next, when it raises the finally block is entered with
\* the exception pending
TryCall(name, ok, next) ==
    /\ calls' = Append(calls, Call(name, ok))
    /\ IF ok
       THEN /\ pc' = next
            /\ UNCHANGED error
       ELSE /\ error' = name
            /\ pc' = "finally"

\* excel = win32com.client.DispatchEx("Excel.Application")
DispatchEx ==
    /\ pc = "DispatchEx"
    /\ \E ok \in BOOLEAN :
          /\ TryCall("DispatchEx", ok, "configure")
          /\ excel' = IF ok THEN "running" ELSE excel
    /\ UNCHANGED <<xl_fixed, wb>>

\* excel.Visible, excel.DisplayAlerts, excel.ScreenUpdating
Configure ==
    /\ pc = "configure"
    /\ \E ok \in BOOLEAN : TryCall("configure", ok, "Open")
    /\ UNCHANGED <<xl_fixed, excel, wb>>

\* wb = excel.Workbooks.Open(str(template_path), 0, False)
OpenTemplate ==
    /\ pc = "Open"
    /\ \E ok \in BOOLEAN :
          /\ TryCall("Open", ok, "write")
          /\ wb' = IF ok THEN "open" ELSE wb
    /\ UNCHANGED <<xl_fixed, excel>>

\* sheet = wb.Worksheets("Design Regulator") and the six input cells
WriteCells ==
    /\ pc = "write"
    /\ \E ok \in BOOLEAN : TryCall("write", ok, "CalculateFullRebuild")
    /\ UNCHANGED <<xl_fixed, excel, wb>>

\* excel.CalculateFullRebuild()
Recalculate ==
    /\ pc = "CalculateFullRebuild"
    /\ \E ok \in BOOLEAN : TryCall("CalculateFullRebuild", ok, "SaveAs xlsm")
    /\ UNCHANGED <<xl_fixed, excel, wb>>

\* wb.SaveAs(str(out_xlsm), 52)
SaveXlsm ==
    /\ pc = "SaveAs xlsm"
    /\ \E ok \in BOOLEAN :
          TryCall("SaveAs xlsm", ok, IF out_xlsx THEN "SaveAs xlsx" ELSE "finally")
    /\ UNCHANGED <<xl_fixed, excel, wb>>

\* if out_xlsx is not None: wb.SaveAs(str(out_xlsx), 51)
SaveXlsx ==
    /\ pc = "SaveAs xlsx"
    /\ \E ok \in BOOLEAN : TryCall("SaveAs xlsx", ok, "finally")
    /\ UNCHANGED <<xl_fixed, excel, wb>>

\* a slip: wb.Close(False) not in a try of its own, what it raises leaving
\* the finally block
FinallyCloseUnguarded ==
    /\ pc = "finally"
    /\ IF wb = "none"
       THEN /\ pc' = "finally quit"
            /\ UNCHANGED <<wb, calls, error>>
       ELSE \E ok \in BOOLEAN :
               /\ calls' = Append(calls, Call("Close", ok))
               /\ wb' = IF ok THEN "closed" ELSE wb
               /\ IF ok
                  THEN /\ pc' = "finally quit"
                       /\ UNCHANGED error
                  ELSE /\ pc' = "raised"
                       /\ error' = "Close"
    /\ UNCHANGED <<xl_fixed, excel>>

\* finally: if wb is not None: try: wb.Close(False) except Exception: pass
FinallyClose ==
    /\ pc = "finally"
    /\ IF wb = "none"
       THEN UNCHANGED <<wb, calls>>
       ELSE \E ok \in BOOLEAN :
               /\ calls' = Append(calls, Call("Close", ok))
               /\ wb' = IF ok THEN "closed" ELSE wb
    /\ pc' = "finally quit"
    /\ UNCHANGED <<xl_fixed, excel, error>>

\* if excel is not None: try: excel.Quit() except Exception: pass; then the
\* pending exception goes on to the caller, or the function returns None
FinallyQuit ==
    /\ pc = "finally quit"
    /\ IF excel = "none"
       THEN UNCHANGED <<excel, calls>>
       ELSE \E ok \in BOOLEAN :
               /\ calls' = Append(calls, Call("Quit", ok))
               /\ excel' = IF ok THEN "quit" ELSE excel
    /\ pc' = IF error = "none" THEN "returned" ELSE "raised"
    /\ UNCHANGED <<xl_fixed, wb, error>>

NextExcel ==
    \/ ImportWin32
    \/ CheckTemplate
    \/ LoadInputs
    \/ DispatchEx
    \/ Configure
    \/ OpenTemplate
    \/ WriteCells
    \/ Recalculate
    \/ SaveXlsm
    \/ SaveXlsx
    \/ FinallyClose
    \/ FinallyQuit

SpecExcel == InitExcel /\ [][NextExcel]_vars

\* the places of the calls of a name in the log
CallsOf(name) == {k \in DOMAIN calls : calls[k].call = name}

\* the Excel application was started; the template was opened
ExcelStarted == \E k \in DOMAIN calls : calls[k] = Call("DispatchEx", TRUE)
WorkbookOpened == \E k \in DOMAIN calls : calls[k] = Call("Open", TRUE)

\* the function has been left, by return or by an exception
Left == pc \in {"returned", "raised"}

\* the calls of the try block that raised
FailedInTry ==
    {k \in DOMAIN calls : ~calls[k].ok /\ calls[k].call \notin {"Close", "Quit"}}

\* C24: when the function is left after Excel was started, the last call
\* made is the one Quit, preceded by the one Close if the workbook was
\* opened (no Close otherwise), whether or not the Close came back; a failure
\* in the try block leaves the function as that exception, and without one
\* the function returns; a template name that starts with "~$" is refused
\* with no call made to Excel, and only such a name is refused that way
ExcelAlwaysReleased ==
    /\ (Left /\ ExcelStarted) =>
          /\ Cardinality(CallsOf("Quit")) = 1
          /\ calls[Len(calls)].call = "Quit"
          /\ WorkbookOpened =>
                /\ Cardinality(CallsOf("Close")) = 1
                /\ calls[Len(calls) - 1].call = "Close"
          /\ ~WorkbookOpened => CallsOf("Close") = {}
    /\ Left =>
          /\ FailedInTry # {} =>
                /\ pc = "raised"
                /\ \E k \in FailedInTry :
                      FailedInTry = {k} /\ error = calls[k].call
          /\ (FailedInTry = {} /\ ExcelStarted) =>
                pc = "returned" /\ error = "none"
    /\ (/\ Len(template_name) >= 2
        /\ template_name[1] = "~"
        /\ template_name[2] = "$") =>
          /\ calls = <<>>
          /\ excel = "none"
          /\ pc \in {"import", "template", "raised"}
          /\ pc = "raised" => error \in {"RuntimeError", "ValueError"}
    /\ error = "ValueError" =>
          /\ Len(template_name) >= 2
          /\ template_name[1] = "~"
          /\ template_name[2] = "$"

\* the second SaveAs raised, then the Close raised as well, and Quit was
\* still called and the SaveAs error reached the caller
ExcelAlwaysReleasedWitness ==
    /\ pc = "raised"
    /\ error = "SaveAs xlsx"
    /\ Len(calls) = 9
    /\ calls[8] = Call("Close", FALSE)
    /\ calls[9] = Call("Quit", TRUE)
    /\ wb = "open"
    /\ excel = "quit"

=============================================================================
